---- MODULE Spec2Model ----
(***************************************************************************)
(* A model of the Go package otp (heliorosa/otp): HOTP and TOTP keys,      *)
(* their otpauth:// URLs and the codes they produce.                       *)
(*                                                                         *)
(* Strings are sequences of one-character strings, so that the conversions *)
(* of the package (strings.ToLower, strconv.Itoa / Atoi, base32, URL       *)
(* escaping) are computed character by character.  Byte slices are         *)
(* sequences of 0..255.                                                    *)
(***************************************************************************)
EXTENDS Integers, Sequences, FiniteSets, TLC

(***************************************************************************)
(* Characters of the model, in ASCII order.                                *)
(***************************************************************************)
Ascii ==
  << " ", "!", "%", "+", "-", "/",
     "0", "1", "2", "3", "4", "5", "6", "7", "8", "9", "=",
     "A", "B", "C", "D", "E", "F", "G", "H", "I", "J", "K", "L", "M",
     "N", "O", "P", "Q", "R", "S", "T", "U", "V", "W", "X", "Y", "Z",
     "a", "b", "c", "d", "e", "f", "g", "h", "i", "j", "k", "l", "m",
     "n", "o", "p", "q", "r", "s", "t", "u", "v", "w", "x", "y", "z" >>

Rank(c) == CHOOSE i \in 1..Len(Ascii) : Ascii[i] = c

UpperLetters == SubSeq(Ascii, 18, 43)

LowerLetters == SubSeq(Ascii, 44, 69)

IsUpper(c) == \E i \in 1..26 : UpperLetters[i] = c

IsLower(c) == \E i \in 1..26 : LowerLetters[i] = c

IsDigit(c) == c \in {"0", "1", "2", "3", "4", "5", "6", "7", "8", "9"}

\* strings.ToLower, on the characters of the model
ToLower(s) ==
  [i \in 1..Len(s) |->
     IF IsUpper(s[i])
     THEN LowerLetters[CHOOSE j \in 1..26 : UpperLetters[j] = s[i]]
     ELSE s[i]]

\* strings.ToUpper, on the characters of the model
ToUpper(s) ==
  [i \in 1..Len(s) |->
     IF IsLower(s[i])
     THEN UpperLetters[CHOOSE j \in 1..26 : LowerLetters[j] = s[i]]
     ELSE s[i]]

\* s < t in Go's string order (byte-wise lexicographic)
RECURSIVE StrLess(_, _)
StrLess(s, t) ==
  IF t = <<>> THEN FALSE
  ELSE IF s = <<>> THEN TRUE
  ELSE IF s[1] # t[1] THEN Rank(s[1]) < Rank(t[1])
  ELSE StrLess(Tail(s), Tail(t))

\* strings.TrimPrefix(s, "/")
TrimSlash(s) == IF s # <<>> /\ s[1] = "/" THEN Tail(s) ELSE s

(***************************************************************************)
(* strconv.Itoa and strconv.Atoi.                                          *)
(***************************************************************************)
DigitChar(d) == Ascii[7 + d]

DigitVal(c) == Rank(c) - 7

RECURSIVE ItoaNat(_)
ItoaNat(n) ==
  IF n < 10 THEN <<DigitChar(n)>>
  ELSE Append(ItoaNat(n \div 10), DigitChar(n % 10))

Itoa(n) == IF n < 0 THEN <<"-">> \o ItoaNat(-n) ELSE ItoaNat(n)

RECURSIVE AtoiNat(_, _)
AtoiNat(s, acc) ==
  IF s = <<>> THEN acc
  ELSE AtoiNat(Tail(s), 10 * acc + DigitVal(s[1]))

\* digit strings longer than this are out of the model's integer range
MaxAtoiDigits == 9

\* [ok |-> TRUE, val |-> n], or ok = FALSE for a syntax (or range) error
Atoi(s) ==
  LET signed == s # <<>> /\ s[1] \in {"+", "-"}
      body   == IF signed THEN Tail(s) ELSE s
  IN  IF body = <<>> \/ Len(body) > MaxAtoiDigits
         \/ \E i \in 1..Len(body) : ~IsDigit(body[i])
      THEN [ok |-> FALSE, val |-> 0]
      ELSE [ok |-> TRUE,
            val |-> IF signed /\ s[1] = "-"
                    THEN 0 - AtoiNat(body, 0) ELSE AtoiNat(body, 0)]

(***************************************************************************)
(* encoding/base32, StdEncoding (RFC 4648 alphabet, '=' padding).          *)
(***************************************************************************)
B32Alphabet ==
  << "A", "B", "C", "D", "E", "F", "G", "H", "I", "J", "K", "L", "M",
     "N", "O", "P", "Q", "R", "S", "T", "U", "V", "W", "X", "Y", "Z",
     "2", "3", "4", "5", "6", "7" >>

IsB32(c) == \E i \in 1..32 : B32Alphabet[i] = c

B32Val(c) == (CHOOSE i \in 1..32 : B32Alphabet[i] = c) - 1

Pow2(n) == 2 ^ n

\* bit k (0 = most significant bit of the first byte) of the byte string b
ByteBit(b, k) ==
  IF k >= 8 * Len(b) THEN 0
  ELSE (b[(k \div 8) + 1] \div Pow2(7 - (k % 8))) % 2

\* bit k of the string of 5-bit groups v
QuintBit(v, k) ==
  IF k >= 5 * Len(v) THEN 0
  ELSE (v[(k \div 5) + 1] \div Pow2(4 - (k % 5))) % 2

\* base32.StdEncoding.EncodeToString
EncodeToString(b) ==
  LET n     == Len(b)
      chars == (8 * n + 4) \div 5
      total == 8 * ((n + 4) \div 5)
  IN  [j \in 1..total |->
         IF j > chars THEN "="
         ELSE B32Alphabet[1 + 16 * ByteBit(b, 5 * (j - 1))
                            + 8 * ByteBit(b, 5 * (j - 1) + 1)
                            + 4 * ByteBit(b, 5 * (j - 1) + 2)
                            + 2 * ByteBit(b, 5 * (j - 1) + 3)
                            + ByteBit(b, 5 * (j - 1) + 4)]]

\* the number of '=' that end s
RECURSIVE TrailingPad(_)
TrailingPad(s) ==
  IF s = <<>> \/ s[Len(s)] # "=" THEN 0
  ELSE 1 + TrailingPad(SubSeq(s, 1, Len(s) - 1))

\* the n bytes the 5-bit groups v pack into
PackQuints(v, n) ==
  [m \in 1..n |->
     128 * QuintBit(v, 8 * (m - 1))
     + 64 * QuintBit(v, 8 * (m - 1) + 1)
     + 32 * QuintBit(v, 8 * (m - 1) + 2)
     + 16 * QuintBit(v, 8 * (m - 1) + 3)
     + 8 * QuintBit(v, 8 * (m - 1) + 4)
     + 4 * QuintBit(v, 8 * (m - 1) + 5)
     + 2 * QuintBit(v, 8 * (m - 1) + 6)
     + QuintBit(v, 8 * (m - 1) + 7)]

\* the number of 8-character blocks that begin s and hold only characters
\* of the alphabet: the blocks decoded before the one that is corrupt
RECURSIVE WholeBlocks(_)
WholeBlocks(s) ==
  IF Len(s) < 8 \/ (\E j \in 1..8 : ~IsB32(s[j])) THEN 0
  ELSE 1 + WholeBlocks(SubSeq(s, 9, Len(s)))

\* base32.StdEncoding.DecodeString: [ok, bytes]; the empty string decodes
\* to an empty, non-nil slice.  With the error it returns the bytes of the
\* blocks decoded before the corrupt one (buf[:n]), a non-nil slice too.
DecodeString(s) ==
  LET pad  == TrailingPad(s)
      data == Len(s) - pad
      v    == [j \in 1..data |-> IF IsB32(s[j]) THEN B32Val(s[j]) ELSE 0]
      n    == (5 * data) \div 8
      w    == WholeBlocks(s)
  IN  IF Len(s) % 8 # 0
         \/ (\E j \in 1..data : ~IsB32(s[j]))
         \/ pad \notin {0, 1, 3, 4, 6}
      THEN [ok |-> FALSE,
            bytes |-> PackQuints([j \in 1..(8 * w) |-> B32Val(s[j])], 5 * w)]
      ELSE [ok |-> TRUE, bytes |-> PackQuints(v, n)]

(***************************************************************************)
(* net/url: escaping, url.Values, and the URL as the package uses it.      *)
(* A URL string is the record [Scheme, Host, Path, RawQuery]: Path is the  *)
(* escaped path as written, RawQuery the sequence of name=value pairs as   *)
(* written (both escaped), in their order in the string.                   *)
(***************************************************************************)
\* the characters the model escapes, with the two hex digits of each
EscCode ==
  << <<" ", "2", "0">>, <<"!", "2", "1">>, <<"%", "2", "5">>,
     <<"+", "2", "B">>, <<"/", "2", "F">>, <<"=", "3", "D">> >>

HasEscCode(c) == \E i \in 1..Len(EscCode) : EscCode[i][1] = c

EscOf(c) ==
  LET e == EscCode[CHOOSE i \in 1..Len(EscCode) : EscCode[i][1] = c]
  IN  <<"%", e[2], e[3]>>

IsHex(c) ==
  IsDigit(c) \/ c \in {"A", "B", "C", "D", "E", "F", "a", "b", "c", "d", "e", "f"}

\* the character written %h1h2 (only the characters of EscCode are in the model)
UnescOf(h1, h2) ==
  EscCode[CHOOSE i \in 1..Len(EscCode) :
            /\ EscCode[i][2] = h1
            /\ EscCode[i][3] = ToUpper(<<h2>>)[1]][1]

\* url.QueryEscape: all but letters, digits and - are escaped, a space as +
RECURSIVE QueryEscape(_)
QueryEscape(s) ==
  IF s = <<>> THEN <<>>
  ELSE (IF s[1] = " " THEN <<"+">>
        ELSE IF HasEscCode(s[1]) THEN EscOf(s[1])
        ELSE <<s[1]>>) \o QueryEscape(Tail(s))

\* the path as URL.String() writes it (escape(path, encodePath)):
\* / = + stay, space ! % are escaped
RECURSIVE PathEscape(_)
PathEscape(s) ==
  IF s = <<>> THEN <<>>
  ELSE (IF s[1] \in {" ", "!", "%"} THEN EscOf(s[1]) ELSE <<s[1]>>)
       \o PathEscape(Tail(s))

\* url.unescape: [ok, s]; plus is TRUE for a query component (+ is a space)
RECURSIVE Unescape(_, _)
Unescape(s, plus) ==
  IF s = <<>> THEN [ok |-> TRUE, s |-> <<>>]
  ELSE IF s[1] = "%"
  THEN IF Len(s) < 3 \/ ~IsHex(s[2]) \/ ~IsHex(s[3])
       THEN [ok |-> FALSE, s |-> <<>>]
       ELSE LET r == Unescape(SubSeq(s, 4, Len(s)), plus)
            IN  [ok |-> r.ok, s |-> <<UnescOf(s[2], s[3])>> \o r.s]
  ELSE LET r == Unescape(Tail(s), plus)
       IN  [ok |-> r.ok,
            s |-> <<IF plus /\ s[1] = "+" THEN " " ELSE s[1]>> \o r.s]

\* url.Values{}
NoValues == [n \in {} |-> <<>>]

\* Values.Get: the first value of name, "" when there is none
Get(v, name) ==
  IF name \in DOMAIN v /\ v[name] # <<>> THEN v[name][1] ELSE <<>>

\* Values.Set
Set(v, name, val) ==
  [n \in DOMAIN v \cup {name} |-> IF n = name THEN <<val>> ELSE v[n]]

\* URL.Query(): the pairs that unescape, grouped by name, in their order
Query(raw) ==
  LET Good(p) == Unescape(p[1], TRUE).ok /\ Unescape(p[2], TRUE).ok
      good    == SelectSeq(raw, Good)
      NameOf(p) == Unescape(p[1], TRUE).s
      names   == {NameOf(good[i]) : i \in 1..Len(good)}
  IN  [n \in names |->
         LET Mine(p) == NameOf(p) = n
             mine    == SelectSeq(good, Mine)
         IN  [i \in 1..Len(mine) |-> Unescape(mine[i][2], TRUE).s]]

\* the names of S in increasing order
RECURSIVE SortedKeys(_)
SortedKeys(S) ==
  IF S = {} THEN <<>>
  ELSE LET m == CHOOSE k \in S : \A o \in S \ {k} : StrLess(k, o)
       IN  <<m>> \o SortedKeys(S \ {m})

\* Values.Encode: name=value pairs sorted by name, both escaped
RECURSIVE EncodePairs(_, _)
EncodePairs(v, keys) ==
  IF keys = <<>> THEN <<>>
  ELSE [i \in 1..Len(v[keys[1]]) |->
          <<QueryEscape(keys[1]), QueryEscape(v[keys[1]][i])>>]
       \o EncodePairs(v, Tail(keys))

Encode(v) == EncodePairs(v, SortedKeys(DOMAIN v))

\* url.Parse: [ok, Scheme, Host, Path, Query]; a bad escape in the path is
\* a parse error
Parse(u) ==
  LET p == Unescape(u.Path, FALSE)
  IN  [ok |-> p.ok, Scheme |-> u.Scheme, Host |-> u.Host, Path |-> p.s,
       Query |-> Query(u.RawQuery)]

\* (&url.URL{Scheme, Host, Path, RawQuery}).String()
UrlString(scheme, host, path, rawQuery) ==
  [Scheme |-> scheme, Host |-> host, Path |-> PathEscape(path),
   RawQuery |-> rawQuery]

(***************************************************************************)
(* otp.go: constants, errors, the common key.                              *)
(***************************************************************************)
s_secret == <<"s", "e", "c", "r", "e", "t">>

s_digits == <<"d", "i", "g", "i", "t", "s">>

s_algorithm == <<"a", "l", "g", "o", "r", "i", "t", "h", "m">>

s_issuer == <<"i", "s", "s", "u", "e", "r">>

s_counter == <<"c", "o", "u", "n", "t", "e", "r">>

s_period == <<"p", "e", "r", "i", "o", "d">>

s_sha1 == <<"s", "h", "a", "1">>

s_sha256 == <<"s", "h", "a", "2", "5", "6">>

s_sha512 == <<"s", "h", "a", "5", "1", "2">>

TypeTotp == "totp"

TypeHotp == "hotp"

DefaultDigits == 6

DefaultKeyLength == 10

DefaultPeriod == 30

NoErr == "nil"

ECMissingLabel == "ECMissingLabel"

ECInvalidAlgorithm == "ECInvalidAlgorithm"

ECCantReadRandom == "ECCantReadRandom"

ECNotEnoughRandom == "ECNotEnoughRandom"

ECUrlParseError == "ECUrlParseError"

ECWrongScheme == "ECWrongScheme"

ECInvalidOtpType == "ECInvalidOtpType"

ECBase32Decoding == "ECBase32Decoding"

ECInvalidDigits == "ECInvalidDigits"

ECMissingSecret == "ECMissingSecret"

ECNotHotp == "ECNotHotp"

ECMissingCounter == "ECMissingCounter"

ECInvalidCounter == "ECInvalidCounter"

ECNotTotp == "ECNotTotp"

ECInvalidPeriod == "ECInvalidPeriod"

\* a nil key (no key returned)
NoKey == [Type |-> "none"]

\* a result (key, error) of a constructor or an import
Fail(code) == [k |-> NoKey, err |-> code]

Ok(k) == [k |-> k, err |-> NoErr]

\* a []byte: nil, or the bytes b
NilBytes == [nil |-> TRUE, bytes |-> <<>>]

Bytes(b) == [nil |-> FALSE, bytes |-> b]

\* crypto/rand.Read(b) for len(b) = kl: [n, err, bytes]; the bytes of an
\* outcome are those of one of the model's random streams
RandStream(seed, kl) == [i \in 1..kl |-> (83 * seed + 41 * i + 7) % 256]

RandOk(seed, kl) == [n |-> kl, err |-> FALSE, bytes |-> RandStream(seed, kl)]

RandErr == [n |-> 0, err |-> TRUE, bytes |-> <<>>]

RandShort(seed, kl) ==
  [n |-> kl - 1, err |-> FALSE, bytes |-> RandStream(seed, kl)]

\* the key length newOtpKey asks the random source for
keyLenOf(keyLen) == IF keyLen > 0 THEN keyLen ELSE DefaultKeyLength

\* newOtpKey; rnd is the outcome of rand.Read
newOtpKey(keyLen, label, issuer, algorithm, digits, rnd) ==
  LET d  == IF digits > 0 THEN digits ELSE DefaultDigits
      kl == keyLenOf(keyLen)
  IN  IF label = <<>> THEN Fail(ECMissingLabel)
      ELSE IF ToLower(algorithm) \notin {<<>>, s_sha1, s_sha256, s_sha512}
      THEN Fail(ECInvalidAlgorithm)
      ELSE IF rnd.err THEN Fail(ECCantReadRandom)
      ELSE IF rnd.n # kl THEN Fail(ECNotEnoughRandom)
      ELSE Ok([Key |-> Bytes(rnd.bytes), Label |-> label, Issuer |-> issuer,
               Algorithm |-> algorithm, Digits |-> d])

\* one iteration of the loop of importOtpKey, for the parameter name:
\* [err, k, params]
importParam(q, name, k, params) ==
  LET n    == ToLower(name)
      val  == q[name][1]
      b    == DecodeString(val)
      dg   == Atoi(val)
  IN  IF n = s_secret
      THEN IF ~b.ok THEN [err |-> ECBase32Decoding, k |-> k, params |-> params]
           ELSE [err |-> NoErr, k |-> [k EXCEPT !.Key = Bytes(b.bytes)],
                 params |-> params]
      ELSE IF n = s_digits
      THEN IF ~dg.ok THEN [err |-> ECInvalidDigits, k |-> k, params |-> params]
           ELSE [err |-> NoErr, k |-> [k EXCEPT !.Digits = dg.val],
                 params |-> params]
      ELSE IF n = s_algorithm
      THEN IF ToLower(val) \in {s_sha1, s_sha256, s_sha512}
           THEN [err |-> NoErr, k |-> [k EXCEPT !.Algorithm = val],
                 params |-> params]
           ELSE [err |-> ECInvalidAlgorithm, k |-> k, params |-> params]
      ELSE IF n = s_issuer
      THEN [err |-> NoErr, k |-> [k EXCEPT !.Issuer = val], params |-> params]
      ELSE [err |-> NoErr, k |-> k, params |-> Set(params, name, val)]

\* the loop of importOtpKey over the names still to visit: a Go map is
\* ranged over in an unspecified order, so every order is an outcome.
\* The set of [err, k, typ, params].
RECURSIVE importLoop(_, _, _, _, _)
importLoop(q, todo, k, params, typ) ==
  IF todo = {}
  THEN IF k.Key.nil
       THEN {[err |-> ECMissingSecret, k |-> k, typ |-> typ, params |-> params]}
       ELSE {[err |-> NoErr, k |-> k, typ |-> typ, params |-> params]}
  ELSE UNION {
         LET r == importParam(q, name, k, params)
         IN  IF r.err # NoErr
             THEN {[err |-> r.err, k |-> r.k, typ |-> typ, params |-> r.params]}
             ELSE importLoop(q, todo \ {name}, r.k, r.params, typ)
         : name \in todo }

\* importOtpKey: the set of its possible results [err, k, typ, params]
importOtpKey(u) ==
  LET otpUrl == Parse(u)
      none   == [Key |-> NilBytes, Label |-> <<>>, Issuer |-> <<>>,
                 Algorithm |-> <<>>, Digits |-> 0]
      bad(c) == {[err |-> c, k |-> none, typ |-> "", params |-> NoValues]}
  IN  IF ~otpUrl.ok THEN bad(ECUrlParseError)
      ELSE IF otpUrl.Scheme # "otpauth" THEN bad(ECWrongScheme)
      ELSE IF otpUrl.Host \notin {TypeHotp, TypeTotp} THEN bad(ECInvalidOtpType)
      ELSE importLoop(otpUrl.Query, DOMAIN otpUrl.Query,
                      [Key |-> NilBytes, Label |-> TrimSlash(otpUrl.Path),
                       Issuer |-> <<>>, Algorithm |-> <<>>,
                       Digits |-> DefaultDigits],
                      NoValues, otpUrl.Host)

\* otpKey.Key32
Key32(k) == EncodeToString(k.Key.bytes)

\* otpKey.SetKey32: the key after the call and the error returned.  The
\* result of DecodeString is assigned to k.Key before err is looked at.
SetKey32(k, key32) ==
  LET d == DecodeString(key32)
  IN  [k |-> [k EXCEPT !.Key = Bytes(d.bytes)],
       err |-> IF d.ok THEN NoErr ELSE ECBase32Decoding]

\* what url stands for when it panics instead of returning a string
PanicUrl == [Scheme |-> "panic", Host |-> "", Path |-> <<>>, RawQuery |-> <<>>]

\* otpKey.url: the URL string, or PanicUrl
url(k, otpType, params) ==
  LET a  == ToLower(k.Algorithm)
      p1 == Set(params, s_secret, Key32(k))
      p2 == IF k.Digits # DefaultDigits
            THEN Set(p1, s_digits, Itoa(k.Digits)) ELSE p1
      p3 == IF a \in {s_sha256, s_sha512}
            THEN Set(p2, s_algorithm, k.Algorithm) ELSE p2
      p4 == IF k.Issuer # <<>> THEN Set(p3, s_issuer, k.Issuer) ELSE p3
  IN  IF otpType \notin {TypeTotp, TypeHotp}
         \/ a \notin {<<>>, s_sha1, s_sha256, s_sha512}
      THEN PanicUrl
      ELSE UrlString("otpauth", otpType, <<"/">> \o k.Label, Encode(p4))

(***************************************************************************)
(* Hashing and truncation.  A code is [ok |-> TRUE, val |-> n], or Panic   *)
(* when the call panics instead of returning.                              *)
(***************************************************************************)
Panic == [ok |-> FALSE, val |-> 0]

Returns(n) == [ok |-> TRUE, val |-> n]

\* the size of the digest of the key's algorithm (sha1.Size, sha256.Size,
\* sha512.Size); 0 for an algorithm hashTruncateInt panics on
HashSize(algorithm) ==
  LET a == ToLower(algorithm)
  IN  IF a \in {<<>>, s_sha1} THEN 20
      ELSE IF a = s_sha256 THEN 32
      ELSE IF a = s_sha512 THEN 64
      ELSE 0

\* binary.BigEndian.PutUint64(b, uint64(i)): the 8 bytes of i in two's
\* complement, for an i of the model's integer range
PutUint64(i) ==
  LET m == IF i >= 0 THEN i ELSE 0 - (i + 1)
      Low(j) == IF j <= 4 THEN 0 ELSE (m \div (256 ^ (8 - j))) % 256
  IN  [j \in 1..8 |-> IF i >= 0 THEN Low(j) ELSE 255 - Low(j)]

RECURSIVE WeightedSum(_, _)
WeightedSum(b, w) ==
  IF b = <<>> THEN 0 ELSE (w + 1) * b[1] + WeightedSum(Tail(b), w + 3)

\* hmac.New(sha, key); Write(msg); Sum(nil): a digest of `size` bytes that is
\* a function of the digest size, the key and the message.  The cryptography
\* is not modelled: this fixed mixing function stands for it.
Hmac(size, keyBytes, msg) ==
  LET mix == WeightedSum(keyBytes, 1) + WeightedSum(msg, 2)
  IN  [j \in 1..size |->
         (mix * (2 * j + 1) + ((mix \div 16) + j) * ((mix % 13) + j)
          + 31 * j + 5 * size) % 256]

\* the dynamic truncation of hashTruncateInt, on the digest b
truncate(b) ==
  LET ofs == b[19 + 1] % 16
  IN  <<b[ofs + 1] % 128, b[ofs + 2], b[ofs + 3], b[ofs + 4]>>

\* otpKey.hashTruncateInt: the 4 bytes, or <<>> when it panics
hashTruncateInt(k, i) ==
  IF HashSize(k.Algorithm) = 0 THEN <<>>
  ELSE truncate(Hmac(HashSize(k.Algorithm), k.Key.bytes, PutUint64(i)))

\* binary.BigEndian.Uint32
Uint32(c) == 16777216 * c[1] + 65536 * c[2] + 256 * c[3] + c[4]

\* a variant of modPow10 that keeps one decimal digit too many
modPow10_OneDigitMore(x, digits) ==
  IF digits < 0 THEN Panic
  ELSE IF digits >= 9 THEN Returns(x)
  ELSE Returns(x % (10 ^ (digits + 1)))

\* x % int(math.Pow10(digits)) for 0 <= x < 2^31.  int(math.Pow10(d)) is 0
\* for d < 0 (the division panics) and 10^d for 0 <= d <= 18; from d = 10 on
\* the modulus exceeds x (for d >= 19 the conversion is out of range and
\* yields the smallest or the largest int, depending on the build: both
\* exceed x in magnitude), so the remainder is x.
modPow10(x, digits) ==
  IF digits < 0 THEN Panic
  ELSE IF digits >= 10 THEN Returns(x)
  ELSE Returns(x % (10 ^ digits))

\* Go's integer division, which truncates toward zero (b # 0)
GoDiv(a, b) ==
  IF (a >= 0) = (b > 0)
  THEN (IF a >= 0 THEN a ELSE 0 - a) \div (IF b > 0 THEN b ELSE 0 - b)
  ELSE 0 - ((IF a >= 0 THEN a ELSE 0 - a) \div (IF b > 0 THEN b ELSE 0 - b))

(***************************************************************************)
(* hotp.go                                                                 *)
(***************************************************************************)
\* &Hotp{otpKey: k, Counter: counter}
Hotp(k, counter) ==
  [Type |-> TypeHotp, Key |-> k.Key, Label |-> k.Label, Issuer |-> k.Issuer,
   Algorithm |-> k.Algorithm, Digits |-> k.Digits, Counter |-> counter]

NewHotp(keyLen, label, issuer, algorithm, digits, counter, rnd) ==
  LET r == newOtpKey(keyLen, label, issuer, algorithm, digits, rnd)
  IN  IF r.err # NoErr THEN Fail(r.err) ELSE Ok(Hotp(r.k, counter))

NewHotpWithDefaults(label, issuer, rnd) ==
  NewHotp(0, label, issuer, <<>>, 0, 0, rnd)

\* a variant of importHotp that takes a missing counter for counter 0
importHotp_CounterDefaultsZero(k, params) ==
  LET ctr == Get(params, s_counter)
      i   == Atoi(ctr)
  IN  IF ctr = <<>> THEN Ok(Hotp(k, 0))
      ELSE IF ~i.ok THEN Fail(ECInvalidCounter)
      ELSE Ok(Hotp(k, i.val))

importHotp(k, params) ==
  LET ctr == Get(params, s_counter)
      i   == Atoi(ctr)
  IN  IF ctr = <<>> THEN Fail(ECMissingCounter)
      ELSE IF ~i.ok THEN Fail(ECInvalidCounter)
      ELSE Ok(Hotp(k, i.val))

\* ImportHotp: the set of its possible results
ImportHotp(u) ==
  { IF r.err # NoErr THEN Fail(r.err)
    ELSE IF r.typ # TypeHotp THEN Fail(ECNotHotp)
    ELSE importHotp(r.k, r.params) : r \in importOtpKey(u) }

\* Hotp.Url (and Hotp.String)
HotpUrl(h) == url(h, TypeHotp, Set(NoValues, s_counter, Itoa(h.Counter)))

codeCounter(h, c) ==
  LET t == hashTruncateInt(h, c)
  IN  IF t = <<>> THEN Panic ELSE modPow10(Uint32(t), h.Digits)

HotpCode(h) == codeCounter(h, h.Counter)

\* a variant of CodeN that counts from 0 instead of the stored counter
CodeN_IgnoresCounter(h, n) == codeCounter(h, n)

CodeN(h, n) == codeCounter(h, h.Counter + n)

CodeCounter(h, c) == codeCounter(h, c)

(***************************************************************************)
(* The TOTP key (unnamed/part_000).                                        *)
(***************************************************************************)
\* &Totp{k, period}
Totp(k, period) ==
  [Type |-> TypeTotp, Key |-> k.Key, Label |-> k.Label, Issuer |-> k.Issuer,
   Algorithm |-> k.Algorithm, Digits |-> k.Digits, Period |-> period]

NewTotp(keyLen, label, issuer, algorithm, digits, period, rnd) ==
  LET r == newOtpKey(keyLen, label, issuer, algorithm, digits, rnd)
  IN  IF r.err # NoErr THEN Fail(r.err)
      ELSE Ok(Totp(r.k, IF period > 0 THEN period ELSE DefaultPeriod))

NewTotpWithDefaults(label, issuer, rnd) ==
  NewTotp(0, label, issuer, <<>>, 0, 0, rnd)

importTotp(k, p) ==
  LET td == Get(p, s_period)
      i  == Atoi(td)
  IN  IF td = <<>> THEN Ok(Totp(k, DefaultPeriod))
      ELSE IF ~i.ok THEN Fail(ECInvalidPeriod)
      ELSE Ok(Totp(k, i.val))

\* ImportTotp: the set of its possible results
ImportTotp(u) ==
  { IF r.err # NoErr THEN Fail(r.err)
    ELSE IF r.typ # TypeTotp THEN Fail(ECNotTotp)
    ELSE importTotp(r.k, r.params) : r \in importOtpKey(u) }

\* Totp.Url (and Totp.String)
TotpUrl(t) == url(t, TypeTotp, NoValues)

CodePeriod(t, p) ==
  LET c == hashTruncateInt(t, p)
  IN  IF c = <<>> THEN Panic ELSE modPow10(Uint32(c), t.Digits)

\* a variant of CodeTime that rounds the period index up
CodeTime_RoundsUp(t, tm) ==
  IF t.Period = 0 THEN Panic
  ELSE CodePeriod(t, GoDiv(tm + t.Period - 1, t.Period))

\* Totp.CodeTime, tm the Unix seconds of the instant
CodeTime(t, tm) ==
  IF t.Period = 0 THEN Panic ELSE CodePeriod(t, GoDiv(tm, t.Period))

\* Totp.Code, now the Unix seconds of timeNow()
TotpCode(t, now) == CodeTime(t, now)

(***************************************************************************)
(* otp.go: the constructors and the import of either variant.              *)
(***************************************************************************)
NewKey(keyType, keyLen, label, issuer, algorithm, digits, extraParams, rnd) ==
  LET p  == Get(extraParams, s_period)
      pa == Atoi(p)
      pp == IF p = <<>> THEN 0
            ELSE IF pa.val = 0 THEN DefaultPeriod ELSE pa.val
      c  == Get(extraParams, s_counter)
      cc == Atoi(c)
  IN  IF keyType = TypeTotp
      THEN IF p # <<>> /\ ~pa.ok THEN Fail(ECInvalidPeriod)
           ELSE NewTotp(keyLen, label, issuer, algorithm, digits, pp, rnd)
      ELSE IF keyType = TypeHotp
      THEN IF c = <<>> THEN Fail(ECMissingCounter)
           ELSE IF ~cc.ok THEN Fail(ECInvalidCounter)
           ELSE NewHotp(keyLen, label, issuer, algorithm, digits, cc.val, rnd)
      ELSE Fail(ECInvalidOtpType)

\* a variant of NewKeyWithDefaults that supplies counter 0 to an HOTP key
\* whose extraParams hold no counter
NewKeyWithDefaults_HotpCounterZero(keyType, label, issuer, extraParams, rnd) ==
  NewKey(keyType, 0, label, issuer, <<>>, 0,
         IF keyType = TypeHotp /\ Get(extraParams, s_counter) = <<>>
         THEN Set(extraParams, s_counter, <<"0">>) ELSE extraParams,
         rnd)

NewKeyWithDefaults(keyType, label, issuer, extraParams, rnd) ==
  NewKey(keyType, 0, label, issuer, <<>>, 0, extraParams, rnd)

\* ImportKey: the set of its possible results
ImportKey(u) ==
  { IF r.err # NoErr THEN Fail(r.err)
    ELSE IF r.typ = TypeTotp THEN importTotp(r.k, r.params)
    ELSE importHotp(r.k, r.params) : r \in importOtpKey(u) }

(***************************************************************************)
(* The state machine: one caller of the package.  It first obtains a key   *)
(* from a constructor or an import (these are package functions, which     *)
(* read nothing of an earlier key), then uses the key it holds: it asks    *)
(* for codes, advances the counter, replaces the time source, serializes   *)
(* the key and imports the string Url() returned.                          *)
(***************************************************************************)
VARIABLES
  key,      \* the key the caller holds, NoKey when it holds none
  err,      \* the error of the last constructor or import, NoErr when nil
  origin,   \* how the held key was obtained: "none", "new" or "import"
  call,     \* the last call: its name, its arguments and what it returned
  timeNow   \* the Unix seconds the time source timeNow returns

vars == <<key, err, origin, call, timeNow>>

\* the bounds of the model
MaxKeyLen == 2

MaxCounter == 1

MaxParams == 2

KeyLens == {0, MaxKeyLen}

Labels == {<<>>, <<"a", " ", "b">>}

Issuers == {<<>>, <<"I", "+">>}

Algorithms ==
  {<<>>, s_sha1, <<"S", "H", "A", "2", "5", "6">>, s_sha512, <<"m", "d", "5">>}

DigitsArgs == {0, 6, 8}

CounterArgs == {-1, 0, 5}

PeriodArgs == {0, 30, 60}

RandSeeds == {0, 1}

\* the outcomes of rand.Read for a key of keyLen
RandOutcomes(keyLen) ==
  {RandOk(sd, keyLenOf(keyLen)) : sd \in RandSeeds}
    \cup {RandErr, RandShort(0, keyLenOf(keyLen))}

\* the extraParams of NewKey
ExtraParams ==
  { NoValues,
    Set(NoValues, s_counter, <<"5">>),
    Set(NoValues, s_counter, <<"a", "s", "d">>),
    Set(NoValues, ToUpper(s_counter), <<"5">>),
    Set(NoValues, s_period, <<"6", "0">>),
    Set(NoValues, s_period, <<"0">>),
    Set(NoValues, s_period, <<"-", "5">>),
    Set(NoValues, s_period, <<"x">>) }

KeyTypes == {TypeTotp, TypeHotp, "motp"}

\* the secret parameter of an imported URL, as written: none, a valid
\* one (with its padding escaped), an empty one, one that is not base32
SecretChoices ==
  { <<>>,
    << <<s_secret, <<"M", "E", "%", "3", "D", "%", "3", "D", "%", "3", "D",
                     "%", "3", "D", "%", "3", "D", "%", "3", "D">> >> >>,
    << <<s_secret, <<>> >> >>,
    << <<s_secret, <<"A", "!", "B", "A", "D">> >> >> }

\* the other name=value pairs the imported URLs are made of, as written
ParamPool ==
  << <<ToUpper(s_secret), <<"M", "I", "=", "=", "=", "=", "=", "=">> >>,
     <<s_digits, <<"8">> >>,
     <<s_digits, <<"-", "1">> >>,
     <<s_digits, <<"1", "0">> >>,
     <<s_digits, <<"x">> >>,
     <<s_algorithm, <<"S", "H", "A", "2", "5", "6">> >>,
     <<s_algorithm, <<"m", "d", "5">> >>,
     <<s_issuer, <<"m", "e">> >>,
     <<s_counter, <<"5">> >>,
     <<s_counter, <<"a", "s", "d">> >>,
     <<ToUpper(s_counter), <<"5">> >>,
     <<s_period, <<"6", "0">> >>,
     <<s_period, <<"0">> >>,
     <<<<"P", "e", "r", "i", "o", "d">>, <<"6", "0">> >>,
     <<<<"f", "o", "o">>, <<"%", "z", "z">> >> >>

\* the pairs of the pool at the positions of I, in the pool's order
RECURSIVE PickParams(_, _)
PickParams(I, from) ==
  IF from > Len(ParamPool) THEN <<>>
  ELSE (IF from \in I THEN <<ParamPool[from]>> ELSE <<>>)
       \o PickParams(I, from + 1)

\* the queries of the imported URLs: a secret choice, then at most
\* MaxParams pairs of the pool
ParamLists ==
  { sc \o PickParams(I, 1) :
      sc \in SecretChoices,
      I \in {J \in SUBSET (1..Len(ParamPool)) : Cardinality(J) <= MaxParams} }

ValidSecret == CHOOSE sc \in SecretChoices : Len(sc) = 1 /\ Len(sc[1][2]) > 5

\* URL strings with the parameters in the order Values.Encode writes them
\* (sorted by name), as the tests import them
SortedInputs ==
  { [Scheme |-> "otpauth", Host |-> TypeTotp, Path |-> <<"/", "a">>,
     RawQuery |-> << <<s_period, <<"6", "0">> >> >> \o ValidSecret],
    [Scheme |-> "otpauth", Host |-> TypeHotp, Path |-> <<"/", "a">>,
     RawQuery |-> << <<s_counter, <<"5">> >>, <<s_digits, <<"8">> >> >>
                  \o ValidSecret],
    [Scheme |-> "otpauth", Host |-> TypeHotp, Path |-> <<"/", "a">>,
     RawQuery |-> << <<s_algorithm, <<"S", "H", "A", "2", "5", "6">> >>,
                     <<s_counter, <<"5">> >>,
                     <<s_issuer, <<"m", "e">> >> >> \o ValidSecret] }

\* the URL strings given to the imports
UrlInputs ==
  { [Scheme |-> "otpauth", Host |-> h, Path |-> <<"/", "a">>, RawQuery |-> q] :
      h \in {TypeTotp, TypeHotp}, q \in ParamLists }
  \cup SortedInputs
  \cup
  { [Scheme |-> "", Host |-> "", Path |-> <<>>, RawQuery |-> <<>>],
    [Scheme |-> "http", Host |-> TypeTotp, Path |-> <<"/", "a">>,
     RawQuery |-> ValidSecret],
    [Scheme |-> "otpauth", Host |-> "motp", Path |-> <<"/", "a">>,
     RawQuery |-> ValidSecret],
    [Scheme |-> "otpauth", Host |-> TypeTotp, Path |-> <<"/", "%", "z">>,
     RawQuery |-> ValidSecret],
    [Scheme |-> "otpauth", Host |-> TypeTotp, Path |-> <<>>,
     RawQuery |-> ValidSecret] }

\* the strings given to SetKey32: the base32 of one byte, and a whole
\* block followed by a character that is not of the alphabet
Key32Args ==
  { <<"M", "I", "=", "=", "=", "=", "=", "=">>,
    <<"M", "F", "R", "G", "G", "Z", "D", "F", "!">> }

CodeNArgs == {-1, 1, 2}

CodeCounterArgs == {0, 1, 7}

CodePeriodArgs == {1, 3}

CodeTimeArgs == {-31, 59, 90}

TimeNowValues == {0, 59}

Init ==
  /\ key = NoKey
  /\ err = NoErr
  /\ origin = "none"
  /\ call = [op |-> "start"]
  /\ timeNow = 0

AtStart == key = NoKey /\ err = NoErr

\* the caller takes the result r of a constructor
Constructed(r, c) ==
  /\ key' = r.k
  /\ err' = r.err
  /\ origin' = IF r.err = NoErr THEN "new" ELSE "none"
  /\ call' = c
  /\ UNCHANGED timeNow

DoNewHotp ==
  /\ AtStart
  /\ \E keyLen \in KeyLens, label \in Labels, issuer \in Issuers,
        algorithm \in Algorithms, digits \in DigitsArgs,
        counter \in CounterArgs :
       \E rnd \in RandOutcomes(keyLen) :
         Constructed(
           NewHotp(keyLen, label, issuer, algorithm, digits, counter, rnd),
           [op |-> "NewHotp", label |-> label, algorithm |-> algorithm,
            digits |-> digits, counter |-> counter])

DoNewHotpWithDefaults ==
  /\ AtStart
  /\ \E label \in Labels, issuer \in Issuers :
       \E rnd \in RandOutcomes(0) :
         Constructed(NewHotpWithDefaults(label, issuer, rnd),
                     [op |-> "NewHotpWithDefaults", label |-> label])

DoNewTotp ==
  /\ AtStart
  /\ \E keyLen \in KeyLens, label \in Labels, issuer \in Issuers,
        algorithm \in Algorithms, digits \in DigitsArgs,
        period \in PeriodArgs :
       \E rnd \in RandOutcomes(keyLen) :
         Constructed(
           NewTotp(keyLen, label, issuer, algorithm, digits, period, rnd),
           [op |-> "NewTotp", label |-> label, algorithm |-> algorithm,
            digits |-> digits, period |-> period])

DoNewTotpWithDefaults ==
  /\ AtStart
  /\ \E label \in Labels, issuer \in Issuers :
       \E rnd \in RandOutcomes(0) :
         Constructed(NewTotpWithDefaults(label, issuer, rnd),
                     [op |-> "NewTotpWithDefaults", label |-> label])

DoNewKey ==
  /\ AtStart
  /\ \E keyType \in KeyTypes, keyLen \in KeyLens, label \in Labels,
        algorithm \in Algorithms, digits \in DigitsArgs,
        extraParams \in ExtraParams :
       \E rnd \in RandOutcomes(keyLen) :
         Constructed(
           NewKey(keyType, keyLen, label, <<>>, algorithm, digits,
                  extraParams, rnd),
           [op |-> "NewKey", keyType |-> keyType, label |-> label,
            extraParams |-> extraParams])

DoNewKeyWithDefaults ==
  /\ AtStart
  /\ \E keyType \in KeyTypes, label \in Labels, issuer \in Issuers,
        extraParams \in ExtraParams :
       \E rnd \in RandOutcomes(0) :
         Constructed(
           NewKeyWithDefaults(keyType, label, issuer, extraParams, rnd),
           [op |-> "NewKeyWithDefaults", keyType |-> keyType,
            label |-> label, issuer |-> issuer, extraParams |-> extraParams,
            randOk |-> (~rnd.err /\ rnd.n = DefaultKeyLength)])

\* the URL strings an import can be given now: one of the inputs (for the
\* first key), or the string Url() has just returned (with the key it was
\* made of)
Importable ==
  (IF AtStart THEN {[s |-> x, of |-> NoKey, origin |-> "none"] : x \in UrlInputs}
   ELSE {})
  \cup (IF call.op = "Url" /\ ~call.panics
        THEN {[s |-> call.s, of |-> call.recv, origin |-> origin]} ELSE {})

\* the caller takes the result r of importing the URL string x
Imported(r, name, x) ==
  /\ key' = r.k
  /\ err' = r.err
  /\ origin' = IF r.err = NoErr THEN "import" ELSE "none"
  /\ call' = [op |-> name, u |-> x.s, of |-> x.of, oforigin |-> x.origin]
  /\ UNCHANGED timeNow

DoImportKey ==
  \E x \in Importable : \E r \in ImportKey(x.s) : Imported(r, "ImportKey", x)

DoImportHotp ==
  \E x \in Importable : \E r \in ImportHotp(x.s) : Imported(r, "ImportHotp", x)

DoImportTotp ==
  \E x \in Importable : \E r \in ImportTotp(x.s) : Imported(r, "ImportTotp", x)

\* no URL string: the held key was not imported by the last call
NoUrl == [Scheme |-> "none", Host |-> "", Path |-> <<>>, RawQuery |-> <<>>]

\* Url() (or String()) of the held key; u is the URL string the key was
\* imported from when the import was the call before
DoUrl ==
  /\ key # NoKey
  /\ LET s == IF key.Type = TypeHotp THEN HotpUrl(key) ELSE TotpUrl(key)
     IN  call' = [op |-> "Url", recv |-> key, s |-> s,
                  panics |-> (s = PanicUrl),
                  u |-> IF call.op \in {"ImportKey", "ImportHotp", "ImportTotp"}
                        THEN call.u ELSE NoUrl]
  /\ UNCHANGED <<key, err, origin, timeNow>>

\* a code method of the held key was called: it hashed the integer i (when
\* hashes is TRUE) and returned (or panicked with) res
CodeCalled(name, arg, hashes, i, res) ==
  /\ call' = [op |-> name, arg |-> arg, recv |-> key, res |-> res,
              hashes |-> hashes, i |-> i,
              digest |-> IF hashes
                         THEN Hmac(HashSize(key.Algorithm), key.Key.bytes,
                                   PutUint64(i))
                         ELSE <<>>,
              trunc |-> IF hashes THEN hashTruncateInt(key, i) ELSE <<>>]
  /\ UNCHANGED <<key, err, origin, timeNow>>

DoHotpCode ==
  /\ key # NoKey /\ key.Type = TypeHotp
  /\ CodeCalled("Code", 0, TRUE, key.Counter, HotpCode(key))

DoCodeN ==
  /\ key # NoKey /\ key.Type = TypeHotp
  /\ \E n \in CodeNArgs :
       CodeCalled("CodeN", n, TRUE, key.Counter + n, CodeN(key, n))

DoCodeCounter ==
  /\ key # NoKey /\ key.Type = TypeHotp
  /\ \E c \in CodeCounterArgs :
       CodeCalled("CodeCounter", c, TRUE, c, CodeCounter(key, c))

DoCodePeriod ==
  /\ key # NoKey /\ key.Type = TypeTotp
  /\ \E p \in CodePeriodArgs :
       CodeCalled("CodePeriod", p, TRUE, p, CodePeriod(key, p))

DoCodeTime ==
  /\ key # NoKey /\ key.Type = TypeTotp
  /\ \E tm \in CodeTimeArgs :
       CodeCalled("CodeTime", tm, key.Period # 0,
                  IF key.Period # 0 THEN GoDiv(tm, key.Period) ELSE 0,
                  CodeTime(key, tm))

DoTotpCode ==
  /\ key # NoKey /\ key.Type = TypeTotp
  /\ CodeCalled("Code", timeNow, key.Period # 0,
                IF key.Period # 0 THEN GoDiv(timeNow, key.Period) ELSE 0,
                TotpCode(key, timeNow))

\* SetKey32 of the held key; ret is the error it returned
DoSetKey32 ==
  /\ key # NoKey
  /\ \E key32 \in Key32Args :
       LET r == SetKey32(key, key32)
       IN  /\ key' = r.k
           /\ call' = [op |-> "SetKey32", arg |-> key32, recv |-> key,
                       ret |-> r.err]
  /\ UNCHANGED <<err, origin, timeNow>>

\* the caller advances the counter of its HOTP key (kh.Counter++)
DoAdvance ==
  /\ key # NoKey /\ key.Type = TypeHotp
  /\ key.Counter < MaxCounter
  /\ key' = [key EXCEPT !.Counter = @ + 1]
  /\ call' = [op |-> "Counter++"]
  /\ UNCHANGED <<err, origin, timeNow>>

\* the caller replaces the time source (timeNow = func() time.Time {...})
DoSetTimeNow ==
  /\ key # NoKey /\ key.Type = TypeTotp
  /\ \E t \in TimeNowValues : timeNow' = t
  /\ timeNow' # timeNow
  /\ call' = [op |-> "timeNow="]
  /\ UNCHANGED <<key, err, origin>>

Next ==
  \/ DoNewHotp
  \/ DoNewHotpWithDefaults
  \/ DoNewTotp
  \/ DoNewTotpWithDefaults
  \/ DoNewKey
  \/ DoNewKeyWithDefaults
  \/ DoImportKey
  \/ DoImportHotp
  \/ DoImportTotp
  \/ DoUrl
  \/ DoHotpCode
  \/ DoCodeN
  \/ DoCodeCounter
  \/ DoCodePeriod
  \/ DoCodeTime
  \/ DoTotpCode
  \/ DoSetKey32
  \/ DoAdvance
  \/ DoSetTimeNow

Spec == Init /\ [][Next]_vars

(***************************************************************************)
(* Properties.                                                             *)
(***************************************************************************)
HotpCodeOps == {"Code", "CodeN", "CodeCounter"}

CodeOps == HotpCodeOps \cup {"CodePeriod", "CodeTime"}

ImportOps == {"ImportKey", "ImportHotp", "ImportTotp"}

IsCodeCall == call.op \in CodeOps

\* the algorithm a key's Algorithm field names
AlgorithmOf(a) == IF a = <<>> THEN s_sha1 ELSE ToLower(a)

\* C1: the key imported from the string Url() returned for a key that
\* NewHotp or NewTotp built is that key again: the import succeeds, and the
\* variant, label, secret, issuer, algorithm, digits and counter (HOTP) or
\* period (TOTP) are those of the serialized key.
C1_RoundTrip ==
  (call.op = "ImportKey" /\ call.of # NoKey /\ call.oforigin = "new") =>
    /\ err = NoErr
    /\ key # NoKey
    /\ key.Type = call.of.Type
    /\ key.Label = call.of.Label
    /\ key.Key = call.of.Key
    /\ key.Issuer = call.of.Issuer
    /\ AlgorithmOf(key.Algorithm) = AlgorithmOf(call.of.Algorithm)
    /\ key.Digits = call.of.Digits
    /\ (key.Type = TypeHotp => key.Counter = call.of.Counter)
    /\ (key.Type = TypeTotp => key.Period = call.of.Period)

\* C2: whatever the algorithm, the truncation takes its offset from the low
\* 4 bits of the last byte of the digest, returns the 4 digest bytes from
\* that offset on, and clears the top bit of the first.
C2_OffsetFromLastByte ==
  (IsCodeCall /\ call.hashes) =>
    LET b   == call.digest
        ofs == b[Len(b)] % 16
    IN  /\ Len(b) = HashSize(call.recv.Algorithm)
        /\ call.trunc = <<b[ofs + 1] % 128, b[ofs + 2], b[ofs + 3], b[ofs + 4]>>

\* a hotp URL that is valid but for its counter: it parses, its scheme is
\* otpauth, its host hotp, it has a secret, its secret, digits and algorithm
\* parameters are well-formed, and no parameter is named counter (in any
\* letter case)
ValidHotpUrlWithoutCounter(x) ==
  LET p == Parse(x)
  IN  /\ p.ok
      /\ p.Scheme = "otpauth"
      /\ p.Host = TypeHotp
      /\ \E n \in DOMAIN p.Query : ToLower(n) = s_secret
      /\ \A n \in DOMAIN p.Query :
           LET v == p.Query[n][1]
           IN  /\ ToLower(n) = s_secret => DecodeString(v).ok
               /\ ToLower(n) = s_digits => Atoi(v).ok
               /\ ToLower(n) = s_algorithm =>
                    ToLower(v) \in {s_sha1, s_sha256, s_sha512}
               /\ ToLower(n) # s_counter

DefaultsCall ==
  /\ call.op = "NewKeyWithDefaults"
  /\ call.keyType \in {TypeTotp, TypeHotp}
  /\ call.label # <<>>
  /\ call.issuer = <<>>
  /\ call.extraParams = NoValues
  /\ call.randOk

C5_DigitBound ==
  (IsCodeCall /\ call.res.ok) =>
    /\ 0 <= call.res.val
    /\ call.recv.Digits >= 0
    /\ call.recv.Digits < 10 => call.res.val < 10 ^ call.recv.Digits

C5_Witness ==
  /\ IsCodeCall
  /\ call.res.ok
  /\ origin = "import"
  /\ call.recv.Digits = 8
  /\ call.res.val > 9999999

\* C6: CodeN(n) is CodeCounter(counter + n), Code() is CodeCounter(counter),
\* and the three calls leave the key (its counter included) as it was.
C6_LookAhead ==
  (call.op \in HotpCodeOps /\ call.recv.Type = TypeHotp) =>
    /\ key = call.recv
    /\ call.op = "CodeN" =>
         call.res = CodeCounter(call.recv, call.recv.Counter + call.arg)
    /\ call.op = "Code" => call.res = CodeCounter(call.recv, call.recv.Counter)

C6_Witness ==
  /\ call.op = "CodeN"
  /\ call.arg = 2
  /\ call.res.ok
  /\ key.Counter = 1
  /\ call.res # CodeCounter(key, key.Counter)

\* C7: for a period p >= 1 and an instant of t >= 0 Unix seconds, CodeTime(t)
\* is CodePeriod(floor(t / p)); Code() is CodeTime of the instant timeNow
\* returns.
C7_PeriodFlooring ==
  (call.op \in {"Code", "CodeTime"} /\ call.recv.Type = TypeTotp
   /\ call.recv.Period >= 1) =>
    /\ (call.op = "CodeTime" /\ call.arg >= 0) =>
         call.res = CodePeriod(call.recv, call.arg \div call.recv.Period)
    /\ (call.op = "Code" /\ timeNow >= 0) =>
         /\ call.arg = timeNow
         /\ call.res = CodePeriod(call.recv, timeNow \div call.recv.Period)

C7_Witness ==
  /\ call.op = "CodeTime"
  /\ call.recv.Period = 30
  /\ call.arg = 59
  /\ call.res.ok
  /\ call.res # CodePeriod(call.recv, 2)

\* C8: every TOTP key a constructor or an import returns has a period of at
\* least one second.
C8_PeriodPositive ==
  (key # NoKey /\ key.Type = TypeTotp) => key.Period >= 1

\* the URL strings that differ from x in the letter case of one query
\* parameter name
CaseVariants(x) ==
  UNION { { [x EXCEPT !.RawQuery[i][1] = ToUpper(@)],
            [x EXCEPT !.RawQuery[i][1] = ToLower(@)] } :
          i \in 1..Len(x.RawQuery) } \ {x}

\* no two parameters of x have names that are equal but for letter case
DistinctNames(x) ==
  \A i, j \in 1..Len(x.RawQuery) :
    i # j => ToLower(x.RawQuery[i][1]) # ToLower(x.RawQuery[j][1])

\* C9: what ImportKey returns for a URL (the key, or the error kind) is
\* what it returns for the same URL with the letter case of a query
\* parameter name changed.
C9_NameCaseInsensitive ==
  (call.op = "ImportKey" /\ DistinctNames(call.u)) =>
    \A v \in CaseVariants(call.u) : [k |-> key, err |-> err] \in ImportKey(v)

\* C10: the secret of every imported key has at least one byte.
C10_SecretNonEmpty ==
  (origin = "import" /\ key # NoKey) => Len(key.Key.bytes) >= 1

\* x is written as the serializer writes an integer
CanonicalInt(x) == Atoi(x).ok /\ Itoa(Atoi(x).val) = x

\* x is a URL string of the form the serializer emits: scheme otpauth, host
\* totp or hotp, the path "/" and the escaped label, the parameters sorted
\* by name and among secret, digits, algorithm, issuer, counter (hotp) and
\* period (totp), each value escaped as Values.Encode escapes it; secret
\* present and the base32 of its bytes, counter present for hotp, digits
\* absent when 6, algorithm absent when SHA1, issuer absent when empty,
\* period absent when 30
Canonical(x) ==
  LET q == x.RawQuery
      Has(n) == \E i \in 1..Len(q) : q[i][1] = n
      Val(i) == Unescape(q[i][2], TRUE).s
  IN  /\ x.Scheme = "otpauth"
      /\ x.Host \in {TypeTotp, TypeHotp}
      /\ x.Path # <<>> /\ x.Path[1] = "/"
      /\ Unescape(x.Path, FALSE).ok
      /\ PathEscape(Unescape(x.Path, FALSE).s) = x.Path
      /\ \A i \in 1..Len(q) :
           /\ q[i][1] \in {s_secret, s_digits, s_algorithm, s_issuer}
                 \cup (IF x.Host = TypeHotp THEN {s_counter} ELSE {s_period})
           /\ i < Len(q) => StrLess(q[i][1], q[i + 1][1])
           /\ Unescape(q[i][2], TRUE).ok
           /\ QueryEscape(Val(i)) = q[i][2]
           /\ q[i][1] = s_secret =>
                /\ DecodeString(Val(i)).ok
                /\ EncodeToString(DecodeString(Val(i)).bytes) = Val(i)
           /\ q[i][1] = s_digits =>
                CanonicalInt(Val(i)) /\ Atoi(Val(i)).val # DefaultDigits
           /\ q[i][1] = s_algorithm => ToLower(Val(i)) \in {s_sha256, s_sha512}
           /\ q[i][1] = s_issuer => Val(i) # <<>>
           /\ q[i][1] = s_counter => CanonicalInt(Val(i))
           /\ q[i][1] = s_period =>
                /\ CanonicalInt(Val(i))
                /\ Atoi(Val(i)).val >= 1
                /\ Atoi(Val(i)).val # DefaultPeriod
      /\ Has(s_secret)
      /\ x.Host = TypeHotp => Has(s_counter)

\* C11: the Url() of a key imported from a URL string of the form the
\* serializer emits is that URL string.
C11_ImportUrlIdentity ==
  (call.op = "Url" /\ call.u # NoUrl /\ Canonical(call.u)) => call.s = call.u

\* C11 for the URL strings without a period parameter
C11_IdentityWithoutPeriod ==
  (call.op = "Url" /\ call.u # NoUrl /\ Canonical(call.u)
   /\ \A i \in 1..Len(call.u.RawQuery) : call.u.RawQuery[i][1] # s_period) =>
    call.s = call.u

\* C12: a SetKey32 that returns an error returns Base32Decoding and leaves
\* the key, its secret included, as it was before the call.
C12_FailedSetKeepsKey ==
  (call.op = "SetKey32" /\ call.ret # NoErr) =>
    (call.ret = ECBase32Decoding /\ key = call.recv)

\* C13: ImportKey has one outcome for a URL string: whatever order the
\* parameters are visited in, the key (or the error kind) it returns is the
\* one this call returned.
C13_ImportDeterministic ==
  call.op = "ImportKey" =>
    \A r \in ImportKey(call.u) : r = [k |-> key, err |-> err]

====
